---- MODULE Spec2Model ----
(***************************************************************************)
(* Model of scripts/img_resizer.py: resize_logo(source_path, output_dir).  *)
(* One run is the linear procedure of lines 34-126, cut into one action    *)
(* per statement group; a second run with the same arguments follows the   *)
(* first one on the filesystem the first one left behind.                  *)
(*                                                                         *)
(* A path is a sequence of components, absolute when it starts with "/".   *)
(* A file is a record: its container format, the pixel mode, its decoding  *)
(* defect and the pixel sizes of the images it holds.  Pixel contents are  *)
(* not modelled.                                                           *)
(***************************************************************************)
EXTENDS Integers, Sequences, FiniteSets

VARIABLES
    source,     \* Path(source_path), as given                 (line 37)
    output,     \* Path(output_dir), as given                  (line 38)
    dirs,       \* the directories that exist (absolute paths)
    fs,         \* the files: absolute path -> file
    pc,         \* the statement the run is at
    exit_code,  \* the process's exit status once pc = "exited"
    img,        \* the local img                               (lines 46-50)
    i,          \* position of the loop over sizes.items()     (line 67)
    written,    \* the files this run has saved, in order: [path, file]
    skipped,    \* the filenames this run reported as skipped  (line 72)
    composed,   \* the canvas compositions made by the latest step
    run,        \* 1 for the first invocation, 2 for the repeated one
    first,      \* what the first invocation did (for the repeated one)
    fs0,        \* fs when the current invocation started
    dirs0       \* dirs when the current invocation started

vars == <<source, output, dirs, fs, pc, exit_code, img, i, written, skipped,
          composed, run, first, fs0, dirs0>>

----------------------------------------------------------------------------
(* Bounds of the inputs *)

\* source widths and heights 1..MaxSmall are all tried
MaxSmall == 2

\* further source widths/heights: around and beyond the target boxes
LargeDims == {7, 50, 301, 1000, 4001}

SrcDims == (1 .. MaxSmall) \cup LargeDims

----------------------------------------------------------------------------
(* Paths *)

Cwd == <<"/", "work">>

\* faulty variant of resolve: the path is compared as given
resolve_lexical(p) == p

\* Path.resolve(): make the path absolute against the working directory
\* (no symbolic links and no ".." components in the modelled paths).

resolve(p) == IF Len(p) > 0 /\ p[1] = "/" THEN p ELSE Cwd \o p

\* the file a path names when the operating system opens it (exists(),
\* Image.open and Image.save take the paths as given): a relative path is
\* looked up from the working directory
Locate(p) == IF Len(p) > 0 /\ p[1] = "/" THEN p ELSE Cwd \o p

\* faulty variant of sizes: the navbar logo is missing
sizes_short ==
    << [name |-> "favicon-16x16.png",    size |-> <<16, 16>>],
       [name |-> "favicon-32x32.png",    size |-> <<32, 32>>],
       [name |-> "favicon-48x48.png",    size |-> <<48, 48>>],
       [name |-> "apple-touch-icon.png", size |-> <<180, 180>>],
       [name |-> "logo-192.png",         size |-> <<192, 192>>],
       [name |-> "logo-512.png",         size |-> <<512, 512>>] >>

\* faulty variant of sizes: the table sorted by size
sizes_reordered ==
    << [name |-> "favicon-16x16.png",    size |-> <<16, 16>>],
       [name |-> "favicon-32x32.png",    size |-> <<32, 32>>],
       [name |-> "favicon-48x48.png",    size |-> <<48, 48>>],
       [name |-> "logo-64.png",          size |-> <<64, 64>>],
       [name |-> "apple-touch-icon.png", size |-> <<180, 180>>],
       [name |-> "logo-192.png",         size |-> <<192, 192>>],
       [name |-> "logo-512.png",         size |-> <<512, 512>>] >>

\* the table of lines 57-65, in insertion order
sizes ==
    << [name |-> "favicon-16x16.png",    size |-> <<16, 16>>],
       [name |-> "favicon-32x32.png",    size |-> <<32, 32>>],
       [name |-> "favicon-48x48.png",    size |-> <<48, 48>>],
       [name |-> "apple-touch-icon.png", size |-> <<180, 180>>],
       [name |-> "logo-192.png",         size |-> <<192, 192>>],
       [name |-> "logo-512.png",         size |-> <<512, 512>>],
       [name |-> "logo-64.png",          size |-> <<64, 64>>] >>

ico_sizes == << <<16, 16>>, <<32, 32>>, <<48, 48>> >>

og_size == <<1200, 630>>

og_box == <<300, 300>>

ico_name == "favicon.ico"

og_name == "og-image.png"

\* the names a source file may carry: any generated name, or one of its own
SrcNames == {"favicon-16x16.png", "favicon-32x32.png", "favicon-48x48.png",
             "apple-touch-icon.png", "logo-192.png", "logo-512.png",
             "logo-64.png", "favicon.ico", "og-image.png", "logo.png"}

OutRel == <<"out">>

OutAbs == Cwd \o OutRel

\* output_dir as given: ".", a relative directory, the same one absolute
OutputArgs == {<< >>, OutRel, OutAbs}

\* source_path as given: in the working directory, in out/ (relative or
\* absolute)
SourceArgs == {<<n>> : n \in SrcNames}
                \cup {OutRel \o <<n>> : n \in SrcNames \ {"logo.png"}}
                \cup {OutAbs \o <<n>> : n \in SrcNames \ {"logo.png"}}

AllPaths == {Cwd \o <<n>> : n \in SrcNames} \cup {OutAbs \o <<n>> : n \in SrcNames}

Parent(p) == SubSeq(p, 1, Len(p) - 1)

----------------------------------------------------------------------------
(* Files and images *)

NoFile == [fmt |-> "none", mode |-> "none", defect |-> "none", frames |-> << >>]

NoImg == [w |-> 0, h |-> 0, mode |-> "none", loaded |-> FALSE, broken |-> FALSE]

NoRun == [ran |-> FALSE, written |-> << >>, skipped |-> << >>, exit_code |-> 0]

\* what a source file can be: a one-image file of any size in SrcDims, with or
\* without alpha, sound or with a defect in its header or in its pixel data
SrcFiles == [fmt : {"PNG"}, mode : {"RGBA", "RGB"},
             defect : {"none", "header", "data"},
             frames : {<< <<w, h>> >> : w \in SrcDims, h \in SrcDims}]

Abs(n) == IF n < 0 THEN -n ELSE n

Max(a, b) == IF a >= b THEN a ELSE b

\* resized.thumbnail(size, LANCZOS) on an image of size im = <<w, h>>: the
\* size the image has afterwards, as Pillow's Image.thumbnail computes it.
\* An image that fits the box is left alone; otherwise one side takes the
\* box's length and the other, by round_aspect, the floor or the ceiling of
\* the proportional length, whichever keeps the aspect ratio nearer the
\* source's (the floor on a tie), and never less than 1.  The ratios are
\* compared exactly here, in floating point there.
Thumbnail(im, box) ==
    LET w == im[1]
        h == im[2]
        x == box[1]
        y == box[2]
        fx == (y * w) \div h
        cx == IF (y * w) % h = 0 THEN fx ELSE fx + 1
        fy == (x * h) \div w
        cy == IF (x * h) % w = 0 THEN fy ELSE fy + 1
    IN  IF x >= w /\ y >= h THEN im
        ELSE IF x * h >= y * w
        THEN <<Max(IF Abs(w * y - fx * h) <= Abs(w * y - cx * h) THEN fx ELSE cx, 1), y>>
        ELSE <<x, Max(IF fy = 0 \/ Abs(w * fy - x * h) * cy <= Abs(w * cy - x * h) * fy
                      THEN fy ELSE cy, 1)>>

\* faulty variant of Centered: the canvas takes the size of the scaled image
Centered_tight(kind, im, box, canvas) ==
    LET s == Thumbnail(im, box)
    IN  [kind |-> kind, src |-> im, box |-> box, canvas |-> s, scaled |-> s,
         x |-> 0, y |-> 0]

\* faulty variant of Centered: the halves of the leftover are rounded up
Centered_ceil(kind, im, box, canvas) ==
    LET s == Thumbnail(im, box)
    IN  [kind |-> kind, src |-> im, box |-> box, canvas |-> canvas, scaled |-> s,
         x |-> (canvas[1] - s[1] + 1) \div 2,
         y |-> (canvas[2] - s[2] + 1) \div 2]

\* faulty variant of Centered: the image is pasted at the top edge
Centered_top(kind, im, box, canvas) ==
    LET s == Thumbnail(im, box)
    IN  [kind |-> kind, src |-> im, box |-> box, canvas |-> canvas, scaled |-> s,
         x |-> (canvas[1] - s[1]) \div 2,
         y |-> 0]

\* copy, thumbnail to box, new canvas, centred paste (lines 75-82, 92-97,
\* 111-119): the geometry of one composition
Centered(kind, im, box, canvas) ==
    LET s == Thumbnail(im, box)
    IN  [kind |-> kind, src |-> im, box |-> box, canvas |-> canvas, scaled |-> s,
         x |-> (canvas[1] - s[1]) \div 2,
         y |-> (canvas[2] - s[2]) \div 2]

\* faulty variant of Save: a file that exists is left as it is
Save_noclobber(files, p, f) == IF files[p] = NoFile THEN [files EXCEPT ![p] = f] ELSE files

\* Image.save(path, ...): the file is created or replaced.  A save that
\* fails (no space, no permission) is not modelled.

Save(files, p, f) == [files EXCEPT ![p] = f]

\* faulty variant of LoadFails: undecodable pixel data go unnoticed
LoadFails_ignored(im) == FALSE

\* img.load(), which convert() and copy() run on an image whose pixel data
\* have not been read yet, raises when the data cannot be decoded

LoadFails(im) == ~im.loaded /\ im.broken

ImgSize(im) == <<im.w, im.h>>

----------------------------------------------------------------------------
(* The run *)

Init ==
    /\ source \in SourceArgs
    /\ output \in OutputArgs
    /\ \E f \in SrcFiles \cup {NoFile} :
          fs = [p \in AllPaths |-> IF p = Locate(source) THEN f ELSE NoFile]
    /\ dirs \in {{Cwd}, {Cwd, OutAbs}}
    \* a file lies in a directory that exists
    /\ \A p \in AllPaths : fs[p] # NoFile => Parent(p) \in dirs
    /\ pc = "mkdir"
    /\ exit_code = 0
    /\ img = NoImg
    /\ i = 1
    /\ written = << >>
    /\ skipped = << >>
    /\ composed = << >>
    /\ run = 1
    /\ first = NoRun
    /\ fs0 = fs
    /\ dirs0 = dirs

Exit(code) ==
    /\ pc' = "exited"
    /\ exit_code' = code

\* line 39: output.mkdir(parents=True, exist_ok=True)
Mkdir ==
    /\ pc = "mkdir"
    /\ dirs' = dirs \cup {Locate(output)}
    /\ pc' = "exists"
    /\ UNCHANGED <<source, output, fs, exit_code, img, i, written, skipped,
                   composed, run, first, fs0, dirs0>>

\* lines 41-43: if not source.exists(): print; sys.exit(1)
CheckExists ==
    /\ pc = "exists"
    /\ IF fs[Locate(source)] = NoFile
       THEN Exit(1)
       ELSE pc' = "open" /\ UNCHANGED exit_code
    /\ UNCHANGED <<source, output, dirs, fs, img, i, written, skipped,
                   composed, run, first, fs0, dirs0>>

\* line 46: img = Image.open(source).  The header is read, the pixel data
\* are not; a file that holds several images opens as one of them.
Open ==
    /\ pc = "open"
    /\ LET f == fs[Locate(source)]
       IN  IF f.defect = "header"
           THEN Exit(1) /\ UNCHANGED img
           ELSE /\ \E k \in DOMAIN f.frames :
                      img' = [w |-> f.frames[k][1], h |-> f.frames[k][2],
                              mode |-> f.mode, loaded |-> FALSE,
                              broken |-> (f.defect = "data")]
                /\ pc' = "convert"
                /\ UNCHANGED exit_code
    /\ UNCHANGED <<source, output, dirs, fs, i, written, skipped,
                   composed, run, first, fs0, dirs0>>

\* lines 49-53: if img.mode != "RGBA": img = img.convert("RGBA")
Convert ==
    /\ pc = "convert"
    /\ IF img.mode # "RGBA"
       THEN IF LoadFails(img)
            THEN Exit(1) /\ UNCHANGED img
            ELSE /\ img' = [img EXCEPT !.mode = "RGBA", !.loaded = TRUE]
                 /\ pc' = "sizes"
                 /\ UNCHANGED exit_code
       ELSE pc' = "sizes" /\ UNCHANGED <<img, exit_code>>
    /\ i' = 1
    /\ UNCHANGED <<source, output, dirs, fs, written, skipped,
                   composed, run, first, fs0, dirs0>>

PngFile(size, mode) ==
    [fmt |-> "PNG", mode |-> mode, defect |-> "none", frames |-> <<size>>]

\* lines 67-85: one iteration of the loop over sizes.items()
Variant ==
    /\ pc = "sizes"
    /\ i <= Len(sizes)
    /\ LET filename == sizes[i].name
           size == sizes[i].size
           output_path == output \o <<filename>>
           c == Centered("variant", ImgSize(img), size, size)
           f == PngFile(c.canvas, "RGBA")
       IN  IF resolve(output_path) = resolve(source)
           THEN /\ skipped' = Append(skipped, filename)
                /\ i' = i + 1
                /\ UNCHANGED <<pc, exit_code, img, fs, written, composed>>
           ELSE IF LoadFails(img)
           THEN /\ Exit(1)
                /\ UNCHANGED <<img, fs, written, skipped, composed, i>>
           ELSE /\ img' = [img EXCEPT !.loaded = TRUE]
                /\ composed' = <<c>>
                /\ fs' = Save(fs, Locate(output_path), f)
                /\ written' = Append(written, [path |-> Locate(output_path), file |-> f])
                /\ i' = i + 1
                /\ UNCHANGED <<pc, exit_code, skipped>>
    /\ UNCHANGED <<source, output, dirs, run, first, fs0, dirs0>>

\* lines 87-107: the three canvases of favicon.ico, then its save.  The file
\* is recorded with the images handed to the encoder: ico_images[0] and
\* append_images, one per entry of sizes=.
Ico ==
    /\ pc = "sizes"
    /\ i > Len(sizes)
    /\ LET cs == [k \in DOMAIN ico_sizes |->
                     Centered("ico", ImgSize(img), ico_sizes[k], ico_sizes[k])]
           ico_path == output \o <<ico_name>>
           f == [fmt |-> "ICO", mode |-> "RGBA", defect |-> "none",
                 frames |-> [k \in DOMAIN cs |-> cs[k].canvas]]
       IN  IF LoadFails(img)
           THEN /\ Exit(1)
                /\ UNCHANGED <<img, fs, written, composed>>
           ELSE /\ img' = [img EXCEPT !.loaded = TRUE]
                /\ composed' = cs
                /\ fs' = Save(fs, Locate(ico_path), f)
                /\ written' = Append(written, [path |-> Locate(ico_path), file |-> f])
                /\ pc' = "og"
                /\ UNCHANGED exit_code
    /\ UNCHANGED <<source, output, dirs, i, skipped, run, first, fs0, dirs0>>

\* lines 109-123: og-image.png
Og ==
    /\ pc = "og"
    /\ LET c == Centered("og", ImgSize(img), og_box, og_size)
           og_path == output \o <<og_name>>
           f == PngFile(c.canvas, "RGB")
       IN  IF LoadFails(img)
           THEN /\ Exit(1)
                /\ UNCHANGED <<img, fs, written, composed>>
           ELSE /\ img' = [img EXCEPT !.loaded = TRUE]
                /\ composed' = <<c>>
                /\ fs' = Save(fs, Locate(og_path), f)
                /\ written' = Append(written, [path |-> Locate(og_path), file |-> f])
                /\ pc' = "finish"
                /\ UNCHANGED exit_code
    /\ UNCHANGED <<source, output, dirs, i, skipped, run, first, fs0, dirs0>>

\* lines 125-126 and the return to main: the process ends with status 0
Finish ==
    /\ pc = "finish"
    /\ Exit(0)
    /\ UNCHANGED <<source, output, dirs, fs, img, i, written, skipped,
                   composed, run, first, fs0, dirs0>>

\* the same command line is run once more
Rerun ==
    /\ pc = "exited"
    /\ run = 1
    /\ run' = 2
    /\ first' = [ran |-> TRUE, written |-> written, skipped |-> skipped,
                 exit_code |-> exit_code]
    /\ pc' = "mkdir"
    /\ exit_code' = 0
    /\ img' = NoImg
    /\ i' = 1
    /\ written' = << >>
    /\ skipped' = << >>
    /\ composed' = << >>
    /\ fs0' = fs
    /\ dirs0' = dirs
    /\ UNCHANGED <<source, output, dirs, fs>>

Next ==
    \/ Mkdir
    \/ CheckExists
    \/ Open
    \/ Convert
    \/ Variant
    \/ Ico
    \/ Og
    \/ Finish
    \/ Rerun

Spec == Init /\ [][Next]_vars

----------------------------------------------------------------------------
(* What the properties below speak of *)

Range(s) == {s[k] : k \in DOMAIN s}

LastOf(p) == p[Len(p)]

WrittenPaths == {written[k].path : k \in DOMAIN written}

WrittenNames == {LastOf(written[k].path) : k \in DOMAIN written}

WrittenNameSeq == [k \in DOMAIN written |-> LastOf(written[k].path)]

\* the file the source path named when the invocation started
SourceFile0 == fs0[Locate(source)]

SourceMissing == SourceFile0 = NoFile

SourceDecodes == SourceFile0 # NoFile /\ SourceFile0.defect = "none"

SourceBroken == SourceFile0 # NoFile /\ SourceFile0.defect # "none"

\* the generated files as the specification lists them
VariantOrder == <<"favicon-16x16.png", "favicon-32x32.png", "favicon-48x48.png",
                  "apple-touch-icon.png", "logo-192.png", "logo-512.png",
                  "logo-64.png">>

FixedOrder == VariantOrder \o <<"favicon.ico", "og-image.png">>

NineNames == Range(FixedOrder)

VariantDims(n) ==
    CASE n = "favicon-16x16.png"    -> <<16, 16>>
      [] n = "favicon-32x32.png"    -> <<32, 32>>
      [] n = "favicon-48x48.png"    -> <<48, 48>>
      [] n = "apple-touch-icon.png" -> <<180, 180>>
      [] n = "logo-192.png"         -> <<192, 192>>
      [] n = "logo-512.png"         -> <<512, 512>>
      [] n = "logo-64.png"          -> <<64, 64>>

\* the loop over the table has gone past its k-th entry
PastVariant(k) ==
    \/ pc = "sizes" /\ i > k
    \/ pc \in {"og", "finish"}
    \/ pc = "exited" /\ exit_code = 0

----------------------------------------------------------------------------
(* C1: no output file (sized variant, favicon.ico, og-image.png) is ever   *)
(* written at the location of the source file.  The code guards only the   *)
(* sized variants: with the source at <output_dir>/favicon.ico or          *)
(* <output_dir>/og-image.png the source is overwritten.                    *)
C1_NeverWritesOverSource ==
    \A k \in DOMAIN written : written[k].path # Locate(source)

(* C2: with a source path that does not exist the run ends with exit code  *)
(* 1 and leaves the filesystem as it found it: no file written, no         *)
(* directory created.  The code creates output_dir before it looks for the *)
(* source.                                                                  *)
C2_MissingSourceChangesNothing ==
    (SourceMissing /\ pc = "exited") =>
        /\ exit_code = 1
        /\ fs = fs0
        /\ dirs = dirs0

\* what C3 promises once the guard has fired in a run
C3_Outcome ==
    /\ \A n \in Range(skipped) :
          /\ Locate(output \o <<n>>) \notin WrittenPaths
          /\ fs[Locate(output \o <<n>>)] = fs0[Locate(output \o <<n>>)]
    /\ pc = "exited" =>
          /\ exit_code = 0
          /\ WrittenNames = NineNames \ Range(skipped)
          /\ \E k \in DOMAIN written :
                /\ written[k].path = Locate(output \o <<"favicon.ico">>)
                /\ written[k].file.frames = << <<16, 16>>, <<32, 32>>, <<48, 48>> >>

(* C3 as stated: whenever a sized variant has been skipped because its     *)
(* resolved path is the source's, it is not written, the run does not      *)
(* abort, all the other files are produced (favicon.ico from all three     *)
(* sizes) and the exit code is 0.                                           *)
C3_SkipNeverAborts ==
    skipped # << >> => C3_Outcome

(* C3 amended: the same, for a source that decodes.  A sized variant whose *)
(* location is the source's is reported as skipped when the loop reaches   *)
(* it, nothing else is skipped, and the run ends with exit code 0 having   *)
(* produced the rest.                                                       *)
C3_SkipContinuesWhenSourceDecodes ==
    SourceDecodes =>
        /\ \A k \in DOMAIN VariantOrder :
              (PastVariant(k) /\ Locate(output \o <<VariantOrder[k]>>) = Locate(source))
                  => VariantOrder[k] \in Range(skipped)
        /\ \A n \in Range(skipped) : Locate(output \o <<n>>) = Locate(source)
        /\ skipped # << >> => C3_Outcome

C3_Witness ==
    /\ pc = "exited"
    /\ exit_code = 0
    /\ skipped = <<"favicon-16x16.png">>
    /\ Len(written) = 8
    /\ source # output \o <<"favicon-16x16.png">>

(* C4: a run on a valid source completes, and a completed run has written  *)
(* into output_dir exactly the nine named files minus the skipped          *)
(* variants, each once, and has touched no other file.                     *)
C4_ExactlyTheNamedFiles ==
    /\ (SourceDecodes /\ pc = "exited") => exit_code = 0
    /\ (pc = "exited" /\ exit_code = 0) =>
          /\ WrittenNames = NineNames \ Range(skipped)
          /\ Len(written) = Cardinality(WrittenNames)
          /\ \A p \in WrittenPaths : Parent(p) = Locate(output)
          /\ \A p \in AllPaths \ WrittenPaths : fs[p] = fs0[p]
          /\ \A p \in WrittenPaths : fs[p] # NoFile

C4_Witness ==
    /\ pc = "exited"
    /\ exit_code = 0
    /\ Len(written) = 9
    /\ output = OutRel
    /\ OutAbs \notin dirs0

(* C5: a source that exists but cannot be decoded ends the run with exit   *)
(* code 1 and without any output file written, wherever the failure        *)
(* surfaces: at open, at the conversion to RGBA, or at the first copy.     *)
C5_DecodeFailureWritesNothing ==
    SourceBroken =>
        /\ written = << >>
        /\ fs = fs0
        /\ pc \notin {"og", "finish"}
        /\ pc = "exited" => exit_code = 1

\* the failure surfaced at the first copy, after the first table entry was skipped
C5_Witness ==
    /\ SourceBroken
    /\ pc = "exited"
    /\ img.mode = "RGBA"
    /\ ~img.loaded
    /\ skipped # << >>

C7_SecondRunRepeatsFirst ==
    (run = 2 /\ pc = "exited") =>
        /\ written = first.written
        /\ skipped = first.skipped
        /\ exit_code = first.exit_code
        /\ \A k \in DOMAIN written :
              /\ fs0[written[k].path] # NoFile
              /\ fs[written[k].path] = written[k].file

\* the source lay in output_dir as og-image.png and the first run replaced it
C7_Witness ==
    /\ run = 2
    /\ pc = "exited"
    /\ exit_code = 0
    /\ Locate(source) = Locate(output \o <<"og-image.png">>)
    /\ Len(written) = 9
    /\ img.w = 1200

(* C8: in every composition the scaled size fits the box and is no larger  *)
(* than the source (the source itself when it already fits), the offsets   *)
(* are the floored halves of the leftover, the content lies inside the     *)
(* canvas, and the right/bottom margin exceeds the left/top one by 0 or 1. *)
C8_FitAndCenterGeometry ==
    \A k \in DOMAIN composed :
        LET c == composed[k]
            sw == c.scaled[1]
            sh == c.scaled[2]
        IN  /\ 1 <= sw /\ sw <= c.box[1] /\ sw <= c.src[1]
            /\ 1 <= sh /\ sh <= c.box[2] /\ sh <= c.src[2]
            /\ (c.src[1] <= c.box[1] /\ c.src[2] <= c.box[2]) => c.scaled = c.src
            /\ c.x = (c.canvas[1] - sw) \div 2
            /\ c.y = (c.canvas[2] - sh) \div 2
            /\ c.x >= 0 /\ c.x + sw <= c.canvas[1]
            /\ c.y >= 0 /\ c.y + sh <= c.canvas[2]
            /\ (c.canvas[1] - sw - c.x) - c.x \in {0, 1}
            /\ (c.canvas[2] - sh - c.y) - c.y \in {0, 1}

\* a source scaled down, with an odd pixel left over below the content
C8_Witness ==
    \E k \in DOMAIN composed :
        /\ composed[k].scaled[1] < composed[k].src[1]
        /\ (composed[k].canvas[2] - composed[k].scaled[2] - composed[k].y) - composed[k].y = 1

(* C9 as stated: for a square source the offsets x and y are equal in      *)
(* every composition, the banner included.                                 *)
C9_SquareOffsetsEqualEverywhere ==
    \A k \in DOMAIN composed :
        composed[k].src[1] = composed[k].src[2] => composed[k].x = composed[k].y

(* C9 amended: for a square source the offsets x and y are equal in each   *)
(* sized variant and each icon image; in the banner, whose canvas is       *)
(* 1200x630, x exceeds y by 285.                                           *)
C9_SquareOffsetsEqualOnSquareCanvas ==
    \A k \in DOMAIN composed :
        composed[k].src[1] = composed[k].src[2] =>
            IF composed[k].kind = "og"
            THEN composed[k].x = composed[k].y + 285
            ELSE composed[k].x = composed[k].y

C9_Witness ==
    \E k \in DOMAIN composed :
        /\ composed[k].kind = "variant"
        /\ composed[k].src[1] = composed[k].src[2]
        /\ composed[k].scaled[1] < composed[k].src[1]
        /\ composed[k].x = composed[k].y

(* C10: files are written in one fixed order: the sized variants in table  *)
(* order without the skipped ones, then favicon.ico, then og-image.png;    *)
(* nothing before the source is opened and converted, favicon.ico not      *)
(* before the loop has finished, og-image.png not before favicon.ico.      *)
C10_FixedWriteOrder ==
    LET Wrote(n) == n \in WrittenNames
        Kept(n) == n \notin Range(skipped)
    IN  /\ WrittenNameSeq = SelectSeq(FixedOrder, Wrote)
        /\ written # << >> => (img.mode = "RGBA" /\ img.loaded)
        /\ "favicon.ico" \in WrittenNames =>
              \A k \in DOMAIN VariantOrder :
                  VariantOrder[k] \in WrittenNames \cup Range(skipped)
        /\ "og-image.png" \in WrittenNames => "favicon.ico" \in WrittenNames
        /\ pc = "sizes" =>
              WrittenNameSeq = SelectSeq(SubSeq(VariantOrder, 1, i - 1), Kept)
        /\ pc = "finish" => WrittenNameSeq = SelectSeq(FixedOrder, Kept)

C10_Witness ==
    /\ pc = "finish"
    /\ Len(written) = 8
    /\ skipped = <<"logo-192.png">>

====
